---- MODULE Spec2Model ----
(***************************************************************************)
(* Model of lokmeinmatz/bloomfilter-rs: the d-ary MinHeap (src/heap.rs)    *)
(* and the two BloomFilter variants (src/bloomfilter.rs probes bit by bit, *)
(* src/lib.rs builds a temporary mask).  Indices are 0-based as in the     *)
(* source; the sequences that hold Vec contents are read through At.       *)
(***************************************************************************)
EXTENDS Integers, Sequences, FiniteSets, Bags, TLC

\* ------------------------------------------------------------- bounds
\* Heap items are the integers 0..MaxVal.
MaxVal == 2
\* At most MaxInserts calls of insert are explored.
MaxInserts == 4
\* fan_out (num_children) ranges over 0..MaxFanOut.
MaxFanOut == 3
\* Filter storage is 0..MaxBytes bytes long.
MaxBytes == 2
\* A filter holds 0..MaxHashers hashers.
MaxHashers == 2
\* Hasher states (seeds) are 0..MaxKey.
MaxKey == 1
\* Filter elements are the integers 0..MaxElmt.
MaxElmt == 2
\* At most MaxAdds calls of add are explored.
MaxAdds == 3
\* Digests are DigestBits wide in the model (u64 in the source).
DigestBits == 16
\* The bit helpers are called on buffers of 0..MaxBufLen bytes.
MaxBufLen == 4
\* The bit helpers are called with bit indices 0..MaxIdx.
MaxIdx == 33
\* set_multi_bitmask is called on buffers with at most MaxSetBits bits set.
MaxSetBits == 1

VARIABLES
    data,        \* MinHeap.data: Vec<T>
    n,           \* MinHeap.n: number of children per node
    order_fn,    \* MinHeap.order_fn: the injected comparator
    heap_panic,  \* "none", or the panic that ended the last heap call
    heap_op,     \* the last completed heap call
    heap_arg,    \* the item passed to the last insert
    heap_ret,    \* what it returned
    pc,          \* step model: "idle", "sift_up" or "heapify"
    cur,         \* step model: the loop index i of the running sift
    inserted,    \* history: bag of all items passed to insert
    extracted,   \* history: bag of all items returned by extract
    drained,     \* history: items extracted since the last insert, in order
    phase,       \* history: "inserting", "draining" or "mixed"
    hashers,     \* BloomFilter.hashers: Vec<H>, shared by both variants
    bf,          \* bloomfilter.rs filter: data, data_len, elmts_added
    mf,          \* lib.rs filter: data, data_len, elmts_added
    bf_panic,    \* "none", or the panic that ended the last bf call
    mf_panic,    \* "none", or the panic that ended the last mf call
    filter_op,   \* the last filter call: "new", "add" or "never_occured"
    filter_arg,  \* its element
    bf_ret,      \* what the bloomfilter.rs variant returned
    mf_ret,      \* what the lib.rs variant returned
    added,       \* history: the elements passed to a completed add
    add_calls,   \* history: the number of add calls
    buf,         \* utils: the byte buffer handed to set_multi_bitmask
    buf_before,  \* utils: that buffer before the last call
    util_op,     \* utils: the last helper called
    util_arg,    \* utils: its argument (an index or a sequence of indices)
    util_ret,    \* utils: what get_single_bit_mask returned
    util_panic   \* utils: "none", or the assertion that failed

heap_vars == <<data, n, order_fn, heap_panic, heap_op, heap_arg, heap_ret,
               pc, cur, inserted, extracted, drained, phase>>

filter_vars == <<hashers, bf, mf, bf_panic, mf_panic, filter_op, filter_arg,
                 bf_ret, mf_ret, added, add_calls>>

util_vars == <<buf, buf_before, util_op, util_arg, util_ret, util_panic>>

vars == <<heap_vars, filter_vars, util_vars>>

\* ------------------------------------------------------------- helpers
Values == 0..MaxVal

\* Vec indexing, 0-based.
At(d, i) == d[i + 1]

\* Vec::swap(i, j)
Swap(d, i, j) == [d EXCEPT ![i + 1] = d[j + 1], ![j + 1] = d[i + 1]]

\* Mutant of SwapRemove0: truncates the vector instead, which keeps the
\* old root and loses the last element.
SwapRemove0Truncate(d) == SubSeq(d, 1, Len(d) - 1)

\* Mutant of SwapRemove0: moves the last element to the front but forgets to
\* shrink the vector.
SwapRemove0NoPop(d) == [d EXCEPT ![1] = d[Len(d)]]

\* Vec::swap_remove(0): the last element takes the place of the removed
\* one and the vector shrinks by one.
SwapRemove0(d) ==
    IF Len(d) = 1 THEN <<>>
    ELSE [k \in 1..(Len(d) - 1) |-> IF k = 1 THEN d[Len(d)] ELSE d[k]]

\* The comparators a heap can be built with: the natural order (the one the
\* test uses), its reverse, and a total preorder with ties (compare halves).
Orderings == {"asc", "desc", "half"}

Key(o, a) == IF o = "half" THEN a \div 2 ELSE a

\* (self.order_fn)(&a, &b)
Cmp(o, a, b) ==
    LET x == IF o = "desc" THEN Key(o, b) ELSE Key(o, a)
        y == IF o = "desc" THEN Key(o, a) ELSE Key(o, b)
    IN  IF x < y THEN "Less" ELSE IF x = y THEN "Equal" ELSE "Greater"

\* ------------------------------------------------------------- MinHeap
\* Mutant of parent: the parentheses are lost, i - (1 / self.n).
parent_prec(fo, i) == i - (1 \div fo)

\* fn parent(&self, i) = (i - 1) / self.n      (called with i > 0, fo > 0)
parent(fo, i) == (i - 1) \div fo

\* fn nth_child(&self, parent, n) = parent * self.n + n + 1
nth_child(fo, p, k) == p * fo + k + 1

\* The for loop of heapify: n_child runs over k..fo-1, min is the running
\* index.  min moves to the child when data[min] compares Less than it.
RECURSIVE HeapifyScan(_, _, _, _, _, _)
HeapifyScan(d, fo, o, i, k, min) ==
    IF k >= fo THEN min
    ELSE LET idx_child == nth_child(fo, i, k)
         IN  IF idx_child < Len(d)
                /\ Cmp(o, At(d, min), At(d, idx_child)) = "Less"
             THEN HeapifyScan(d, fo, o, i, k + 1, idx_child)
             ELSE HeapifyScan(d, fo, o, i, k + 1, min)

\* fn heapify(&mut self, i): scan, swap with the chosen child, recurse.
RECURSIVE heapify(_, _, _, _)
heapify(d, fo, o, i) ==
    LET min == HeapifyScan(d, fo, o, i, 0, i)
    IN  IF min # i THEN heapify(Swap(d, i, min), fo, o, min) ELSE d

\* Mutant of SiftUp: an if instead of the while, a single swap with the
\* parent.
SiftUpOnce(d, fo, o, i) ==
    IF i > 0 /\ Cmp(o, At(d, i), At(d, (i - 1) \div fo)) = "Less"
    THEN Swap(d, i, (i - 1) \div fo)
    ELSE d

\* The while loop of insert, from index i.  With fan_out 0 the first
\* iteration divides by zero in parent and the call panics.
RECURSIVE SiftUp(_, _, _, _)
SiftUp(d, fo, o, i) ==
    IF i > 0
    THEN LET p == parent(fo, i)
         IN  IF Cmp(o, At(d, i), At(d, p)) = "Less"
             THEN SiftUp(Swap(d, i, p), fo, o, p)
             ELSE d
    ELSE d

RECURSIVE SeqToBag(_)
SeqToBag(s) ==
    IF s = <<>> THEN EmptyBag ELSE SeqToBag(Tail(s)) (+) SetToBag({Head(s)})

None == [tag |-> "None"]
Some(v) == [tag |-> "Some", val |-> v]
Unit == [tag |-> "unit"]

\* A program that calls no bit helper directly: the utils variables stay at
\* these values.
NoUtils ==
    /\ buf = <<>>
    /\ buf_before = <<>>
    /\ util_op = "none"
    /\ util_arg = <<>>
    /\ util_ret = Unit
    /\ util_panic = "none"

\* A program that builds no filter: the filter variables stay at these values.
NoFilter ==
    /\ hashers = <<>>
    /\ bf = [data |-> <<>>, data_len |-> 0, elmts_added |-> 0]
    /\ mf = [data |-> <<>>, data_len |-> 0, elmts_added |-> 0]
    /\ bf_panic = "none"
    /\ mf_panic = "none"
    /\ filter_op = "none"
    /\ filter_arg = 0
    /\ bf_ret = Unit
    /\ mf_ret = Unit
    /\ added = {}
    /\ add_calls = 0

\* MinHeap::new(ordering, num_children)
HeapInit ==
    /\ data = <<>>
    /\ n \in 0..MaxFanOut
    /\ order_fn \in Orderings
    /\ heap_panic = "none"
    /\ heap_op = "new"
    /\ heap_arg = 0
    /\ heap_ret = Unit
    /\ pc = "idle"
    /\ cur = 0
    /\ inserted = EmptyBag
    /\ extracted = EmptyBag
    /\ drained = <<>>
    /\ phase = "inserting"
    /\ NoFilter
    /\ NoUtils

\* pub fn insert(&mut self, item)
insert(item) ==
    /\ heap_panic = "none"
    /\ BagCardinality(inserted) < MaxInserts
    /\ LET i == Len(data)
           pushed == Append(data, item)
       IN  IF i > 0 /\ n = 0
           THEN /\ data' = pushed
                /\ heap_panic' = "div_by_zero"
           ELSE /\ data' = SiftUp(pushed, n, order_fn, i)
                /\ heap_panic' = "none"
    /\ heap_op' = "insert"
    /\ heap_arg' = item
    /\ heap_ret' = Unit
    /\ inserted' = inserted (+) SetToBag({item})
    /\ drained' = <<>>
    /\ phase' = IF phase = "inserting" THEN "inserting" ELSE "mixed"
    /\ UNCHANGED <<n, order_fn, extracted, pc, cur>>
    /\ UNCHANGED <<filter_vars, util_vars>>

\* pub fn extract(&mut self) -> Option<T>
extract ==
    /\ heap_panic = "none"
    /\ heap_op' = "extract"
    /\ IF Len(data) = 0
       THEN /\ heap_ret' = None
            /\ phase' = "inserting"
            /\ UNCHANGED <<data, extracted, drained>>
       ELSE LET root == At(data, 0)
            IN  /\ data' = heapify(SwapRemove0(data), n, order_fn, 0)
                /\ heap_ret' = Some(root)
                /\ extracted' = extracted (+) SetToBag({root})
                /\ drained' = Append(drained, root)
                /\ phase' = IF phase = "inserting" THEN "draining" ELSE phase
    /\ UNCHANGED <<n, order_fn, heap_panic, heap_arg, inserted, pc, cur>>
    /\ UNCHANGED <<filter_vars, util_vars>>

HeapNext ==
    \/ \E item \in Values : insert(item)
    \/ extract

HeapSpec == HeapInit /\ [][HeapNext]_vars

\* ------------------------------------------------------------- BloomFilter
Elements == 0..MaxElmt
HasherKeys == 0..MaxKey

\* size_of::<u8>() * 8
bits_elmt == 8

\* u8 arithmetic: a & b, a | b, a >> k.
RECURSIVE BitAnd(_, _)
BitAnd(a, b) ==
    IF a = 0 \/ b = 0 THEN 0
    ELSE (a % 2) * (b % 2) + 2 * BitAnd(a \div 2, b \div 2)

\* Mutant of BitOr: exclusive or (^= instead of |=).
RECURSIVE BitXor(_, _)
BitXor(a, b) ==
    IF a = 0 THEN b
    ELSE IF b = 0 THEN a
    ELSE (IF (a % 2) # (b % 2) THEN 1 ELSE 0)
         + 2 * BitXor(a \div 2, b \div 2)

RECURSIVE BitOr(_, _)
BitOr(a, b) ==
    IF a = 0 THEN b
    ELSE IF b = 0 THEN a
    ELSE (IF a % 2 = 1 \/ b % 2 = 1 THEN 1 ELSE 0)
         + 2 * BitOr(a \div 2, b \div 2)

Shr(a, k) == a \div (2 ^ k)

\* vec![0u8; len]
Zeroed(len) == [k \in 1..len |-> 0]

\* h.clone(); elmt.hash(&mut h); h.finish(): a deterministic digest of the
\* hasher state and the element (an arbitrary fixed mixing function stands
\* for SipHash).
Finish(key, elmt) ==
    ((key * 7919 + 104729) * (elmt + 1) + key * key * 31) % (2 ^ DigestBits)

\* Mutant of get_single_bit_mask: counts the bits of a byte from the least
\* significant end (0x01 << idx_in_elmt).
get_single_bit_mask_lsb(idx) ==
    LET nb == idx \div bits_elmt
        idx_in_elmt == idx - (nb * bits_elmt)
    IN  [n |-> nb, ok |-> idx_in_elmt < 8, mask |-> 2 ^ idx_in_elmt]

\* utils::get_single_bit_mask(idx) -> (n, mask); ok is its assertion.
get_single_bit_mask(idx) ==
    LET nb == idx \div bits_elmt
        idx_in_elmt == idx - (nb * bits_elmt)
    IN  [n |-> nb,
         ok |-> idx_in_elmt < 8,
         mask |-> IF idx_in_elmt < 8 THEN Shr(128, idx_in_elmt) ELSE 0]

\* Mutant of SetBit: assigns the mask instead of OR-ing it in, clearing the
\* other bits of the byte.
SetBitAssign(store, nb, mask) == [store EXCEPT ![nb + 1] = mask]

\* mask[n] |= b_mask  /  self.data.as_mut()[n] |= mask
SetBit(store, nb, mask) == [store EXCEPT ![nb + 1] = BitOr(@, mask)]

\* utils::set_multi_bitmask(mask, bits_to_set): the for loop, stopped by the
\* first failed assertion.
RECURSIVE set_multi_bitmask(_, _)
set_multi_bitmask(mask, bits_to_set) ==
    IF bits_to_set = <<>> THEN [data |-> mask, panic |-> "none"]
    ELSE LET bm == get_single_bit_mask(Head(bits_to_set))
         IN  IF ~bm.ok THEN [data |-> mask, panic |-> "assert_idx_in_elmt"]
             ELSE IF ~(bm.n < Len(mask))
             THEN [data |-> mask, panic |-> "assert_outside_mask"]
             ELSE set_multi_bitmask(SetBit(mask, bm.n, bm.mask),
                                    Tail(bits_to_set))

\* Mutant of get_bit_indecies: an off-by-one modulus, store_len + 1.
get_bit_indecies_incl(hs, len_bytes, elmt) ==
    LET store_len == len_bytes * 8
    IN  IF Len(hs) > 0 /\ store_len = 0
        THEN [idxs |-> <<>>, panic |-> "rem_by_zero"]
        ELSE [idxs |-> [k \in 1..Len(hs) |->
                           Finish(hs[k], elmt) % (store_len + 1)],
              panic |-> "none"]

\* Mutant of get_bit_indecies: reduces the digest modulo the byte count.
get_bit_indecies_bytes(hs, len_bytes, elmt) ==
    IF Len(hs) > 0 /\ len_bytes = 0
    THEN [idxs |-> <<>>, panic |-> "rem_by_zero"]
    ELSE [idxs |-> [k \in 1..Len(hs) |-> Finish(hs[k], elmt) % len_bytes],
          panic |-> "none"]

\* get_bit_indecies: one index per hasher, digest % store_len, where
\* store_len is the bit count.  The remainder by zero panics as soon as one
\* hasher is mapped over a zero-length store.
get_bit_indecies(hs, len_bytes, elmt) ==
    LET store_len == len_bytes * 8
    IN  IF Len(hs) > 0 /\ store_len = 0
        THEN [idxs |-> <<>>, panic |-> "rem_by_zero"]
        ELSE [idxs |-> [k \in 1..Len(hs) |-> Finish(hs[k], elmt) % store_len],
              panic |-> "none"]

\* bloomfilter.rs add: the for loop over (n, mask).
RECURSIVE BfAddLoop(_, _)
BfAddLoop(store, idxs) ==
    IF idxs = <<>> THEN [data |-> store, panic |-> "none"]
    ELSE LET bm == get_single_bit_mask(Head(idxs))
         IN  IF ~bm.ok THEN [data |-> store, panic |-> "assert_idx_in_elmt"]
             ELSE IF ~(bm.n < Len(store))
             THEN [data |-> store, panic |-> "index_out_of_bounds"]
             ELSE BfAddLoop(SetBit(store, bm.n, bm.mask), Tail(idxs))

\* bloomfilter.rs add: the counter is incremented first, then the bits are
\* set one by one.
BfAdd(f, hs, elmt) ==
    LET counted == [f EXCEPT !.elmts_added = @ + 1]
        gi == get_bit_indecies(hs, f.data_len, elmt)
        r == BfAddLoop(f.data, gi.idxs)
    IN  IF gi.panic # "none" THEN [f |-> counted, panic |-> gi.panic]
        ELSE [f |-> [counted EXCEPT !.data = r.data], panic |-> r.panic]

\* bloomfilter.rs never_occured: the for loop over (n, mask), returning true
\* at the first bit that is not set.
RECURSIVE BfProbeLoop(_, _)
BfProbeLoop(store, idxs) ==
    IF idxs = <<>> THEN [ret |-> FALSE, panic |-> "none"]
    ELSE LET bm == get_single_bit_mask(Head(idxs))
         IN  IF ~bm.ok THEN [ret |-> FALSE, panic |-> "assert_idx_in_elmt"]
             ELSE IF ~(bm.n < Len(store))
             THEN [ret |-> FALSE, panic |-> "index_out_of_bounds"]
             ELSE IF BitAnd(At(store, bm.n), bm.mask) # bm.mask
             THEN [ret |-> TRUE, panic |-> "none"]
             ELSE BfProbeLoop(store, Tail(idxs))

BfNeverOccured(f, hs, elmt) ==
    LET gi == get_bit_indecies(hs, f.data_len, elmt)
    IN  IF gi.panic # "none" THEN [ret |-> FALSE, panic |-> gi.panic]
        ELSE BfProbeLoop(f.data, gi.idxs)

\* lib.rs: *b_mask_store |= *b_mask_el over the zipped bytes.
OrInto(store, el_mask) ==
    [k \in 1..Len(store) |->
        IF k <= Len(el_mask) THEN BitOr(store[k], el_mask[k]) ELSE store[k]]

\* lib.rs add: build the element's mask, then OR it into the store.  The
\* counter is not touched.
MfAdd(f, hs, elmt) ==
    LET gi == get_bit_indecies(hs, Len(f.data), elmt)
        r == set_multi_bitmask(Zeroed(f.data_len), gi.idxs)
    IN  IF gi.panic # "none" THEN [f |-> f, panic |-> gi.panic]
        ELSE IF r.panic # "none" THEN [f |-> f, panic |-> r.panic]
        ELSE [f |-> [f EXCEPT !.data = OrInto(f.data, r.data)],
              panic |-> "none"]

\* Mutant of MaskMissing: reports a miss only for a mask byte none of whose
\* bits is in the store (tests "& == 0" instead of "& != mask").
MaskMissingNone(store, el_mask) ==
    \E k \in 1..Len(el_mask) :
        k <= Len(store) /\ el_mask[k] # 0 /\ BitAnd(el_mask[k], store[k]) = 0

\* lib.rs never_occured: true when some byte of the element's mask is not
\* covered by the store byte beside it.
MaskMissing(store, el_mask) ==
    \E k \in 1..Len(el_mask) :
        k <= Len(store) /\ BitAnd(el_mask[k], store[k]) # el_mask[k]

MfNeverOccured(f, hs, elmt) ==
    LET gi == get_bit_indecies(hs, Len(f.data), elmt)
        r == set_multi_bitmask(Zeroed(f.data_len), gi.idxs)
    IN  IF gi.panic # "none" THEN [ret |-> FALSE, panic |-> gi.panic]
        ELSE IF r.panic # "none" THEN [ret |-> FALSE, panic |-> r.panic]
        ELSE [ret |-> MaskMissing(f.data, r.data), panic |-> "none"]

\* from_initalized(store, hashers): data_len is the length of the store.
from_initalized(store, hs) ==
    [data |-> store, data_len |-> Len(store), elmts_added |-> 0]

\* A program that builds no heap: the heap variables stay at these values.
NoHeap ==
    /\ data = <<>>
    /\ n = 1
    /\ order_fn = "asc"
    /\ heap_panic = "none"
    /\ heap_op = "none"
    /\ heap_arg = 0
    /\ heap_ret = Unit
    /\ pc = "idle"
    /\ cur = 0
    /\ inserted = EmptyBag
    /\ extracted = EmptyBag
    /\ drained = <<>>
    /\ phase = "inserting"

\* default_with_settings(n_bytes, m_hashers): a zeroed store and m_hashers
\* hashers, each with a state of its own; the same store and hashers build
\* both variants.
FilterInit ==
    /\ \E n_bytes \in 0..MaxBytes, m_hashers \in 0..MaxHashers :
          /\ hashers \in [1..m_hashers -> HasherKeys]
          /\ bf = from_initalized(Zeroed(n_bytes), hashers)
          /\ mf = from_initalized(Zeroed(n_bytes), hashers)
    /\ bf_panic = "none"
    /\ mf_panic = "none"
    /\ filter_op = "new"
    /\ filter_arg = 0
    /\ bf_ret = Unit
    /\ mf_ret = Unit
    /\ added = {}
    /\ add_calls = 0
    /\ NoHeap
    /\ NoUtils

\* pub fn add(&mut self, elmt), on both variants
add(elmt) ==
    /\ bf_panic = "none" /\ mf_panic = "none"
    /\ add_calls < MaxAdds
    /\ LET b == BfAdd(bf, hashers, elmt)
           m == MfAdd(mf, hashers, elmt)
       IN  /\ bf' = b.f
           /\ bf_panic' = b.panic
           /\ mf' = m.f
           /\ mf_panic' = m.panic
           /\ added' = IF b.panic = "none" /\ m.panic = "none"
                       THEN added \cup {elmt} ELSE added
    /\ filter_op' = "add"
    /\ filter_arg' = elmt
    /\ bf_ret' = Unit
    /\ mf_ret' = Unit
    /\ add_calls' = add_calls + 1
    /\ UNCHANGED hashers
    /\ UNCHANGED <<heap_vars, util_vars>>

\* pub fn never_occured(&self, elmt) -> bool, on both variants
never_occured(elmt) ==
    /\ bf_panic = "none" /\ mf_panic = "none"
    /\ LET b == BfNeverOccured(bf, hashers, elmt)
           m == MfNeverOccured(mf, hashers, elmt)
       IN  /\ bf_panic' = b.panic
           /\ mf_panic' = m.panic
           /\ bf_ret' = IF b.panic = "none" THEN b.ret ELSE Unit
           /\ mf_ret' = IF m.panic = "none" THEN m.ret ELSE Unit
    /\ filter_op' = "never_occured"
    /\ filter_arg' = elmt
    /\ UNCHANGED <<hashers, bf, mf, added, add_calls>>
    /\ UNCHANGED <<heap_vars, util_vars>>

FilterNext ==
    \/ \E elmt \in Elements : add(elmt)
    \/ \E elmt \in Elements : never_occured(elmt)

FilterSpec == FilterInit /\ [][FilterNext]_vars

\* ------------------------------------------------------------- heap claims
\* The heap-order property: no element compares Less than its parent.
IsHeap(d, fo, o) ==
    \A i \in 1..(Len(d) - 1) : Cmp(o, At(d, i), At(d, parent(fo, i))) # "Less"

NonDecreasing(o, s) ==
    \A k \in 1..(Len(s) - 1) : Cmp(o, s[k], s[k + 1]) # "Greater"

\* C2 (heap ordering law): with fan_out >= 1, after inserts on an empty heap
\* followed only by extracts, the values extracted so far are non-decreasing
\* under the comparator.
C2_HeapOrderingLaw ==
    (n >= 1 /\ phase = "draining") => NonDecreasing(order_fn, drained)

\* C3 (heap-order invariant): with fan_out >= 1, after every completed insert
\* and extract no element compares Less than the element at its parent index.
C3_HeapOrderInvariant ==
    (n >= 1 /\ heap_panic = "none") => IsHeap(data, n, order_fn)

\* C4 (extract returns the true minimum): with fan_out >= 1, every extract on
\* a non-empty heap returns the element at the root, and no element held just
\* before the call compares Less than the returned one.
C4_ExtractReturnsMinimum ==
    [][(extract /\ n >= 1 /\ Len(data) > 0) =>
          /\ heap_ret' = Some(At(data, 0))
          /\ \A k \in 1..Len(data) :
                Cmp(order_fn, data[k], heap_ret'.val) # "Less"]_vars

\* C5 (element conservation): the items held by the heap together with the
\* items returned by successful extracts are exactly the inserted items, as
\* multisets.
C5_ElementConservation ==
    SeqToBag(data) (+) extracted = inserted

\* C5 witness: inserts and extracts have interleaved, two items are out and
\* two are still held.
C5_Witness ==
    /\ phase = "mixed"
    /\ BagCardinality(extracted) >= 2
    /\ Len(data) >= 2
    /\ heap_panic = "none"

\* C6 (size accounting): len() is 0 on a new heap, grows by exactly 1 per
\* insert, shrinks by exactly 1 per extract that returns Some, and extract on
\* an empty heap returns None, does not fail and leaves the heap unchanged.
C6_SizeAccounting ==
    /\ [](heap_op = "new" => Len(data) = 0)
    /\ [][/\ (\E item \in Values : insert(item)) => Len(data') = Len(data) + 1
          /\ (extract /\ Len(data) > 0) =>
                (heap_ret'.tag = "Some" /\ Len(data') = Len(data) - 1)
          /\ (extract /\ Len(data) = 0) =>
                /\ heap_ret' = None
                /\ heap_panic' = "none"
                /\ data' = data
                /\ Len(data') = 0]_vars

\* C6 witness: a heap that was filled and drained has answered None to one
\* more extract and is empty.
C6_Witness ==
    /\ heap_op = "extract"
    /\ heap_ret = None
    /\ BagCardinality(extracted) >= 2
    /\ Len(data) = 0

\* ------------------------------------------------------------- filter claims
\* Bit off of a store, most significant bit of byte 0 first.
BitIsSet(store, off) ==
    (store[(off \div 8) + 1] \div (2 ^ (7 - (off % 8)))) % 2 = 1

\* The bit offsets the claims name: digest_k(e) mod (data_len * 8), k = 1..m.
ProbeSet(f, hs, elmt) ==
    {Finish(hs[k], elmt) % (f.data_len * 8) : k \in 1..Len(hs)}

Usable == bf.data_len >= 1 /\ Len(hashers) >= 1 /\ filter_op # "none"

\* C1 (no false negatives): with data_len >= 1 and m >= 1, once add(x) has
\* completed, never_occured(x) is false in every later state, for both
\* variants, whatever adds follow.
C1_NoFalseNegatives ==
    Usable =>
       /\ \A x \in added :
             /\ BfNeverOccured(bf, hashers, x) = [ret |-> FALSE, panic |-> "none"]
             /\ MfNeverOccured(mf, hashers, x) = [ret |-> FALSE, panic |-> "none"]
       /\ (filter_op = "never_occured" /\ filter_arg \in added) =>
             (bf_ret = FALSE /\ mf_ret = FALSE)

\* C1 witness: two elements were added, never_occured has just answered false
\* for one of them, and the filter still answers true for some other element.
C1_Witness ==
    /\ Usable
    /\ Cardinality(added) >= 2
    /\ filter_op = "never_occured"
    /\ filter_arg \in added
    /\ bf_ret = FALSE
    /\ \E y \in Elements \ added : BfNeverOccured(bf, hashers, y).ret

\* C7 (never_occured is the probe test): with data_len >= 1, never_occured(e)
\* is true exactly when one of the m bits at digest_k(e) mod (data_len * 8) is
\* 0 in storage, in both variants; on a fresh zeroed filter with m >= 1 it is
\* true for every element.
C7_NeverOccuredIffBitUnset ==
    (bf.data_len >= 1 /\ filter_op # "none") =>
       /\ \A e \in Elements :
             /\ BfNeverOccured(bf, hashers, e).ret
                   = (\E off \in ProbeSet(bf, hashers, e) : ~BitIsSet(bf.data, off))
             /\ MfNeverOccured(mf, hashers, e).ret
                   = (\E off \in ProbeSet(mf, hashers, e) : ~BitIsSet(mf.data, off))
       /\ filter_op = "never_occured" =>
             /\ bf_ret = (\E off \in ProbeSet(bf, hashers, filter_arg) :
                             ~BitIsSet(bf.data, off))
             /\ mf_ret = (\E off \in ProbeSet(mf, hashers, filter_arg) :
                             ~BitIsSet(mf.data, off))
       /\ (add_calls = 0 /\ Len(hashers) >= 1) =>
             \A e \in Elements : /\ BfNeverOccured(bf, hashers, e).ret
                                 /\ MfNeverOccured(mf, hashers, e).ret

\* C7 witness: never_occured has answered true for an element one of whose
\* probed bits is set and another is not.
C7_Witness ==
    /\ Usable
    /\ filter_op = "never_occured"
    /\ bf_ret = TRUE /\ mf_ret = TRUE
    /\ \E off \in ProbeSet(bf, hashers, filter_arg) : BitIsSet(bf.data, off)
    /\ \E off \in ProbeSet(bf, hashers, filter_arg) : ~BitIsSet(bf.data, off)

\* C8 (added-count): the added-count of a filter is 0 after construction and
\* equals the number of add calls made so far, re-adds included, in both
\* variants.
C8_AddedCountExact ==
    Usable =>
       /\ bf.elmts_added = add_calls
       /\ mf.elmts_added = add_calls

\* C9 (the two variants agree): built from the same store length and hashers
\* and driven by the same calls, the two variants hold the same storage bytes
\* after every step, return the same never_occured results and fail alike.
C9_VariantsEquivalent ==
    /\ bf.data = mf.data
    /\ bf.data_len = mf.data_len
    /\ bf_ret = mf_ret
    /\ bf_panic = mf_panic

\* C9 witness: after two distinct adds both variants hold a byte with several
\* bits set and have just answered a never_occured call with true.
C9_Witness ==
    /\ Cardinality(added) >= 2
    /\ filter_op = "never_occured"
    /\ bf_ret = TRUE
    /\ mf_ret = TRUE
    /\ \E k \in 1..Len(mf.data) : mf.data[k] \notin {0, 1, 2, 4, 8, 16, 32, 64, 128}

\* C10 (zero-sized configurations are rejected at construction): no add,
\* never_occured, insert or extract ever reaches a division by zero.
C10_NoDivisionByZero ==
    /\ heap_panic # "div_by_zero"
    /\ bf_panic # "rem_by_zero"
    /\ mf_panic # "rem_by_zero"

\* ------------------------------------------------------------- further claims
\* C11 (operations are atomic): a call that fails leaves the structure
\* (heap element sequence, storage bytes and added-count, the helper's buffer)
\* exactly as it was before the call.
C11_OperationsAtomic ==
    [][/\ (heap_panic' # "none" => data' = data)
       /\ (bf_panic' # "none" => bf' = bf)
       /\ (mf_panic' # "none" => mf' = mf)
       /\ (util_panic' # "none" => buf' = buf)]_vars

\* ------------------------------------------------------------- utils
\* let bits = [2, 5, 11, 21, 22, 25, 31] of tests::bit_mask_functions
TestBits == <<2, 5, 11, 21, 22, 25, 31>>

\* The iterators set_multi_bitmask is called with: one index, or the test's.
BitSeqs == {<<i>> : i \in 0..MaxIdx} \cup {TestBits}

\* The number of 1-bits of a byte, and of a buffer (u8::count_ones, summed).
RECURSIVE CountOnes(_)
CountOnes(b) == IF b = 0 THEN 0 ELSE (b % 2) + CountOnes(b \div 2)

RECURSIVE SumOnes(_)
SumOnes(store) ==
    IF store = <<>> THEN 0 ELSE CountOnes(Head(store)) + SumOnes(Tail(store))

\* let mut mask = vec![0u8; len]
UtilsInit ==
    /\ \E len \in 0..MaxBufLen : buf = Zeroed(len)
    /\ buf_before = buf
    /\ util_op = "new"
    /\ util_arg = <<>>
    /\ util_ret = Unit
    /\ util_panic = "none"
    /\ NoHeap
    /\ NoFilter

\* a call of utils::get_single_bit_mask(idx)
call_get_single_bit_mask(idx) ==
    /\ util_panic = "none"
    /\ LET bm == get_single_bit_mask(idx)
       IN  IF bm.ok
           THEN /\ util_ret' = [n |-> bm.n, mask |-> bm.mask]
                /\ util_panic' = "none"
           ELSE /\ util_ret' = Unit
                /\ util_panic' = "assert_idx_in_elmt"
    /\ util_op' = "get_single_bit_mask"
    /\ util_arg' = <<idx>>
    /\ buf_before' = buf
    /\ UNCHANGED buf
    /\ UNCHANGED <<heap_vars, filter_vars>>

\* a call of utils::set_multi_bitmask(&mut buf, &mut bits.iter())
call_set_multi_bitmask(bits) ==
    /\ util_panic = "none"
    /\ SumOnes(buf) < MaxSetBits
    /\ LET r == set_multi_bitmask(buf, bits)
       IN  /\ buf' = r.data
           /\ util_panic' = r.panic
    /\ util_op' = "set_multi_bitmask"
    /\ util_arg' = bits
    /\ util_ret' = Unit
    /\ buf_before' = buf
    /\ UNCHANGED <<heap_vars, filter_vars>>

UtilsNext ==
    \/ \E idx \in 0..MaxIdx : call_get_single_bit_mask(idx)
    \/ \E bits \in BitSeqs : call_set_multi_bitmask(bits)

UtilsSpec == UtilsInit /\ [][UtilsNext]_vars

\* C14 (bit-index mapping is MSB-first): get_single_bit_mask(idx) returns
\* byte idx div 8 and the mask 0x80 >> (idx mod 8), which has exactly one bit
\* set; 0 -> (0, 0x80), 7 -> (0, 0x01), 8 -> (1, 0x80), 21 -> (2, 0x04); and
\* the offsets 2, 5, 11, 21, 22, 25, 31 applied to a zeroed 4-byte buffer give
\* 0x24, 0x10, 0x06, 0x41.
C14_BitIndexMsbFirst ==
    /\ util_op = "get_single_bit_mask" =>
          LET idx == util_arg[1]
          IN  /\ util_panic = "none"
              /\ util_ret = [n |-> idx \div 8, mask |-> 2 ^ (7 - (idx % 8))]
              /\ CountOnes(util_ret.mask) = 1
              /\ idx = 0 => util_ret = [n |-> 0, mask |-> 128]
              /\ idx = 7 => util_ret = [n |-> 0, mask |-> 1]
              /\ idx = 8 => util_ret = [n |-> 1, mask |-> 128]
              /\ idx = 21 => util_ret = [n |-> 2, mask |-> 4]
    /\ (util_op = "set_multi_bitmask" /\ util_arg = TestBits
        /\ buf_before = <<0, 0, 0, 0>>) =>
          (util_panic = "none" /\ buf = <<36, 16, 6, 65>>)

\* C14 witness: the test's offsets have been applied to a zeroed 4-byte
\* buffer.
C14_Witness ==
    /\ util_op = "set_multi_bitmask"
    /\ util_arg = TestBits
    /\ buf_before = <<0, 0, 0, 0>>
    /\ buf = <<36, 16, 6, 65>>

\* ------------------------------------------------------------- filter claims, continued
\* b.powi(e) on non-negative integers; powi(0) is 1.
Pow(b, e) == IF e = 0 THEN 1 ELSE b ^ e

\* err_probability: (set bits / (data_len * 8)) ^ hashers.len(), kept as a
\* fraction num / den.
err_probability(f, hs) ==
    [num |-> Pow(SumOnes(f.data), Len(hs)),
     den |-> Pow(f.data_len * 8, Len(hs))]

\* a <= b for fractions with positive denominators
FracLeq(a, b) == a.num * b.den <= b.num * a.den

\* The offsets of the 1-bits of a store.
OnesSet(store) == {off \in 0..(Len(store) * 8 - 1) : BitIsSet(store, off)}

\* C12 (add is idempotent on the bitmap): an add of an element that was
\* added before leaves every storage byte as it was, in both variants.
C12_AddIdempotent ==
    [][(filter_op' = "add" /\ filter_arg' \in added) =>
          /\ bf'.data = bf.data
          /\ mf'.data = mf.data
          /\ bf_panic' = "none" /\ mf_panic' = "none"]_vars

\* C12 witness: the second of two add calls was a re-add of the only element
\* added, on a filter whose bits it had set.
C12_Witness ==
    /\ Usable
    /\ filter_op = "add"
    /\ add_calls = 2
    /\ added = {filter_arg}
    /\ SumOnes(bf.data) >= 1
    /\ bf.elmts_added = 2

\* C13 (false-positive monotonicity): with data_len >= 1, no step takes a
\* storage bit from 1 to 0, so the number of set bits and err_probability()
\* do not decrease from a state to the next.
C13_FillMonotone ==
    [][bf.data_len >= 1 =>
          /\ OnesSet(bf.data) \subseteq OnesSet(bf'.data)
          /\ OnesSet(mf.data) \subseteq OnesSet(mf'.data)
          /\ SumOnes(bf.data) <= SumOnes(bf'.data)
          /\ SumOnes(mf.data) <= SumOnes(mf'.data)
          /\ FracLeq(err_probability(bf, hashers),
                     err_probability(bf', hashers'))]_vars

\* C13 witness: an add on a filter that already held bits has raised the
\* number of set bits to three or more (each add sets at most two).
C13_Witness ==
    /\ Usable
    /\ filter_op = "add"
    /\ Cardinality(added) >= 2
    /\ SumOnes(bf.data) >= 3
    /\ err_probability(bf, hashers).num > 0

\* C17 (add changes exactly the probed bits): with data_len >= 1 and m >= 1,
\* the 1-bits of storage are exactly the union of the probe sets
\* digest_k(e) mod (data_len * 8) of the elements added so far; an add sets
\* the bits of its element's probe set and no other, and never_occured
\* changes no bit; in both variants.
C17_AddSetsExactlyProbedBits ==
    /\ [](Usable =>
            /\ OnesSet(bf.data)
                  = UNION {ProbeSet(bf, hashers, x) : x \in added}
            /\ OnesSet(mf.data)
                  = UNION {ProbeSet(mf, hashers, x) : x \in added})
    /\ [][Usable =>
            /\ filter_op' = "add" =>
                  /\ OnesSet(bf'.data)
                        = OnesSet(bf.data) \cup ProbeSet(bf, hashers, filter_arg')
                  /\ OnesSet(mf'.data)
                        = OnesSet(mf.data) \cup ProbeSet(mf, hashers, filter_arg')
            /\ filter_op' = "never_occured" =>
                  (bf'.data = bf.data /\ mf'.data = mf.data)]_vars

\* C17 witness: after two distinct adds a never_occured call has run on a
\* store that holds some but not all bits.
C17_Witness ==
    /\ Usable
    /\ filter_op = "never_occured"
    /\ Cardinality(added) >= 2
    /\ Cardinality(OnesSet(bf.data)) >= 2
    /\ Cardinality(OnesSet(bf.data)) < bf.data_len * 8

\* C18 (the defensive checks cannot fire): with data_len >= 1 no add or
\* never_occured panics; every bit offset they compute is below data_len * 8,
\* its intra-byte position passes the assertion of get_single_bit_mask and
\* its byte index is below data_len.
C18_ChecksUnreachable ==
    (bf.data_len >= 1 /\ filter_op # "none") =>
       /\ bf_panic = "none"
       /\ mf_panic = "none"
       /\ \A e \in Elements :
             LET gi == get_bit_indecies(hashers, bf.data_len, e)
             IN  /\ gi.panic = "none"
                 /\ \A k \in 1..Len(gi.idxs) :
                       /\ gi.idxs[k] < bf.data_len * 8
                       /\ get_single_bit_mask(gi.idxs[k]).ok
                       /\ get_single_bit_mask(gi.idxs[k]).n < Len(bf.data)
                 /\ BfAdd(bf, hashers, e).panic = "none"
                 /\ MfAdd(mf, hashers, e).panic = "none"
                 /\ BfNeverOccured(bf, hashers, e).panic = "none"
                 /\ MfNeverOccured(mf, hashers, e).panic = "none"

\* C18 witness: an add has set the last bit of the last byte of the store.
C18_Witness ==
    /\ Usable
    /\ filter_op = "add"
    /\ bf_panic = "none"
    /\ (bf.data_len * 8 - 1) \in ProbeSet(bf, hashers, filter_arg)
    /\ BitIsSet(bf.data, bf.data_len * 8 - 1)

\* ------------------------------------------------------------- MinHeap, step by step
\* The same heap with the loop of insert and the recursion of heapify taken
\* one iteration at a time: pc names the running loop and cur is its index i.
\* The call-level histories (inserted, extracted, drained, phase) are not
\* kept here; the heap holds at most MaxInserts items.

\* insert up to the loop: let mut i = self.len(); self.data.push(item)
StartInsert(item) ==
    /\ pc = "idle"
    /\ heap_panic = "none"
    /\ Len(data) < MaxInserts
    /\ data' = Append(data, item)
    /\ cur' = Len(data)
    /\ pc' = "sift_up"
    /\ heap_op' = "insert"
    /\ heap_arg' = item
    /\ heap_ret' = Unit
    /\ UNCHANGED <<n, order_fn, heap_panic, inserted, extracted, drained, phase>>
    /\ UNCHANGED <<filter_vars, util_vars>>

\* one iteration of while i > 0 { ... } in insert
SiftUpStep ==
    /\ pc = "sift_up"
    /\ IF cur > 0
       THEN IF n = 0
            THEN /\ heap_panic' = "div_by_zero"
                 /\ pc' = "idle"
                 /\ UNCHANGED <<data, cur>>
            ELSE LET p == parent(n, cur)
                 IN  IF Cmp(order_fn, At(data, cur), At(data, p)) = "Less"
                     THEN /\ data' = Swap(data, cur, p)
                          /\ cur' = p
                          /\ UNCHANGED <<pc, heap_panic>>
                     ELSE /\ pc' = "idle"
                          /\ UNCHANGED <<data, cur, heap_panic>>
       ELSE /\ pc' = "idle"
            /\ UNCHANGED <<data, cur, heap_panic>>
    /\ UNCHANGED <<n, order_fn, heap_op, heap_arg, heap_ret,
                   inserted, extracted, drained, phase>>
    /\ UNCHANGED <<filter_vars, util_vars>>

\* extract up to the call of heapify(0)
StartExtract ==
    /\ pc = "idle"
    /\ heap_panic = "none"
    /\ heap_op' = "extract"
    /\ IF Len(data) = 0
       THEN /\ heap_ret' = None
            /\ UNCHANGED <<data, cur, pc>>
       ELSE /\ heap_ret' = Some(At(data, 0))
            /\ data' = SwapRemove0(data)
            /\ cur' = 0
            /\ pc' = "heapify"
    /\ UNCHANGED <<n, order_fn, heap_panic, heap_arg,
                   inserted, extracted, drained, phase>>
    /\ UNCHANGED <<filter_vars, util_vars>>

\* one call of heapify(cur): the scan, then the swap and the recursive call,
\* or the return
HeapifyStep ==
    /\ pc = "heapify"
    /\ LET min == HeapifyScan(data, n, order_fn, cur, 0, cur)
       IN  IF min # cur
           THEN /\ data' = Swap(data, cur, min)
                /\ cur' = min
                /\ UNCHANGED pc
           ELSE /\ pc' = "idle"
                /\ UNCHANGED <<data, cur>>
    /\ UNCHANGED <<n, order_fn, heap_panic, heap_op, heap_arg, heap_ret,
                   inserted, extracted, drained, phase>>
    /\ UNCHANGED <<filter_vars, util_vars>>

StepNext ==
    \/ \E item \in Values : StartInsert(item)
    \/ SiftUpStep
    \/ StartExtract
    \/ HeapifyStep

\* A call runs to completion on the caller's thread: a started loop keeps
\* taking its iterations.
StepSpec ==
    /\ HeapInit
    /\ [][StepNext]_vars
    /\ WF_vars(SiftUpStep)
    /\ WF_vars(HeapifyStep)

\* The indices of the children of node i that are present in d.
Children(d, fo, i) ==
    {c \in 0..(Len(d) - 1) : \E k \in 0..(fo - 1) : c = i * fo + k + 1}

\* C15 (the sift-down step selects the smallest): with fan_out >= 1 each
\* heapify(i) step swaps node i with a child that is smallest among its
\* present children when some child is smaller than node i and continues from
\* that child, and swaps nothing and stops when no child is smaller.
C15_SiftDownSelectsSmallest ==
    [][(pc = "heapify" /\ n >= 1) =>
          LET kids == Children(data, n, cur)
          IN  IF \E c \in kids :
                    Cmp(order_fn, At(data, c), At(data, cur)) = "Less"
              THEN /\ pc' = "heapify"
                   /\ cur' \in kids
                   /\ \A c \in kids :
                         Cmp(order_fn, At(data, c), At(data, cur')) # "Less"
                   /\ data' = Swap(data, cur, cur')
              ELSE /\ pc' = "idle"
                   /\ data' = data]_vars

\* C19 (every heap operation terminates): with fan_out >= 1 the parent index
\* of the sift-up loop is below its index and the child indices of heapify
\* are above its index, the index strictly decreases from one sift-up
\* iteration to the next and strictly increases, staying below len, from one
\* heapify call to the next, and every started operation reaches its end.
C19_OperationsTerminate ==
    /\ []((n >= 1 /\ pc = "sift_up" /\ cur > 0) =>
             (parent(n, cur) >= 0 /\ parent(n, cur) < cur))
    /\ []((n >= 1 /\ pc = "heapify") =>
             \A k \in 0..(n - 1) : nth_child(n, cur, k) > cur)
    /\ [][(pc = "sift_up" /\ pc' = "sift_up") => cur' < cur]_vars
    /\ [][(pc = "heapify" /\ pc' = "heapify") =>
             (cur' > cur /\ cur' < Len(data'))]_vars
    /\ (pc # "idle") ~> (pc = "idle")

\* C19 witness: a sift-up that has moved its item two levels up to the root
\* of a heap of three or more items and is about to stop.
C19_Witness ==
    /\ n >= 1
    /\ pc = "sift_up"
    /\ cur = 0
    /\ Len(data) >= 3
    /\ At(data, 0) = heap_arg
    /\ \A k \in 2..Len(data) : Cmp(order_fn, data[1], data[k]) = "Less"
    /\ n = 1

\* C16 (insert restores the heap invariant globally): with fan_out >= 1, an
\* insert on a heap in heap order leaves it in heap order at every index, and
\* after inserts only (on an empty heap) no held item compares Less than the
\* root.
C16_InsertRestoresHeap ==
    /\ []((n >= 1 /\ phase = "inserting" /\ Len(data) > 0) =>
             /\ IsHeap(data, n, order_fn)
             /\ \A k \in 1..Len(data) :
                   Cmp(order_fn, data[k], At(data, 0)) # "Less")
    /\ [][((\E item \in Values : insert(item))
           /\ n >= 1 /\ IsHeap(data, n, order_fn)) =>
             IsHeap(data', n, order_fn)]_vars

\* C16 witness: on a heap of fan-out 1 the item just inserted is the root of
\* three or more items and is Less than all the others, so it was sifted up
\* past two levels.
C16_Witness ==
    /\ n = 1
    /\ heap_op = "insert"
    /\ heap_panic = "none"
    /\ phase = "inserting"
    /\ Len(data) >= 3
    /\ At(data, 0) = heap_arg
    /\ \A k \in 2..Len(data) : Cmp(order_fn, data[k], data[1]) = "Greater"

====
